---- MODULE Spec2Model ----
\* Compliance detection and confidence correlation engine:
\*   FourDimensionalVerifier (5D verifier and correlator),
\*   PatternDetector (rule registry and detector),
\*   CentralBrainSender (remote sync client).
EXTENDS Integers, Sequences, FiniteSets, TLC

\* ------------------------------------------------------------------
\* Bounds of the model
\* ------------------------------------------------------------------
MaxVtFiles == 2
MaxFinFiles == 2
ScoreWindow == 6
MaxLocalFiles == 2
MaxCalls == 2
ExampleWindow == 6

\* ------------------------------------------------------------------
\* Program constants
\* ------------------------------------------------------------------
EPISTEMIC_CAP == 95
EPISTEMIC_BUFFER == 5
CorpusTarget == 50
QualityChecks == 4
EndpointCount == 4
DriftThreshold == 10
ConsistencyThreshold == 85
LastCommitAgeMock == 1

VARIABLES
  enabled,      \* CentralBrainSender.enabled
  endpoint,     \* CentralBrainSender.endpoint ("null" when unset)
  apiKey,       \* CentralBrainSender.apiKey ("null" when unset)
  lastFetch,    \* record of the last fetchIncidentPatterns call
  lastConfig,   \* the argument of the last configure call: [called, config]
  spc,          \* sendEvents: "idle" | "posting" | "waiting" | "done"
  attempt,      \* sendEvents: the attempt parameter of the running call
  posts,        \* POST requests issued by the current sendEvents call
  waits,        \* backoff delays (ms) waited by the current call, in order
  outcomes,     \* outcomes of the POSTs of the current call, in order
  dropped,      \* the current call gave up and dropped its events
  events,       \* events.length of the current call
  incidents,    \* PatternDetector.incidents: [isNull, rules]
  violations,   \* PatternDetector.violations
  warnings,     \* PatternDetector.warnings
  commendations, \* PatternDetector.commendations
  text,         \* the text under analysis (set of markers it contains)
  context,      \* the AnalysisContext: [file]
  lastLoad,     \* record of the last loadIncidentPatterns call
  lastResult,   \* what the last analyze call returned
  dpc,          \* detector: "idle" | "fetch" (awaiting the GET) | "local" (awaiting readdir)
  caller,       \* who awaits the running load: "none" | "load" | "analyze"
  vpc,          \* verify(): "idle" | "running" | "done"
  pcD,          \* per analyzer: "idle" | "pending" | "done"
  dims,         \* the five DimensionResults
  correlation,  \* the CorrelationResult of the last correlate5D call
  correlateCalls, \* number of correlate5D invocations in the current pass
  evidence,     \* the evidence and result of the analyzer call that returned last
  handler,      \* an entry point that sends telemetry: [kind, pc, status, sendAtResponse]
  calls         \* overlapping analyze calls on one detector: per call [pc, text, context,
                \* result, aliased, loaded (it started the lazy load), files (still to
                \* read by its load), duringLoad (a check of it ran while a load was
                \* filling this.incidents)]

verifierVars == <<vpc, pcD, dims, correlation, correlateCalls, evidence>>
clientVars == <<enabled, endpoint, apiKey, lastFetch, lastConfig>>
senderVars == <<spc, attempt, posts, waits, outcomes, dropped, events>>
callerVars == <<handler, calls>>
detectorVars == <<incidents, violations, warnings, commendations, text, context,
                  lastLoad, lastResult, dpc, caller>>

Dimensions == 1..5

\* ------------------------------------------------------------------
\* Arithmetic helpers
\* ------------------------------------------------------------------
\* Math.round(num/den) for den > 0: rounds half towards +infinity
Round(num, den) == (2 * num + den) \div (2 * den)

Min(a, b) == IF a < b THEN a ELSE b
Max(a, b) == IF a > b THEN a ELSE b

RECURSIVE SumSeq(_)
SumSeq(s) == IF s = <<>> THEN 0 ELSE Head(s) + SumSeq(Tail(s))

\* Math.max(...scores) / Math.min(...scores)
RECURSIVE MathMax(_)
MathMax(s) == IF Len(s) = 1 THEN s[1] ELSE Max(s[1], MathMax(Tail(s)))
RECURSIVE MathMin(_)
MathMin(s) == IF Len(s) = 1 THEN s[1] ELSE Min(s[1], MathMin(Tail(s)))

Pending == [score |-> -1, status |-> "PENDING"]
NoCorrelation == [finalScore |-> -1, status |-> "NONE", avgScore |-> -1,
                  maxDrift |-> -1, hasDrift |-> FALSE, godelCompliant |-> FALSE,
                  epistemicBuffer |-> EPISTEMIC_BUFFER, scores |-> <<>>]

\* ------------------------------------------------------------------
\* Dimension 1: commit compliance (placeholder result in the source)
\* ------------------------------------------------------------------
analyzeDimension1_Commits == [score |-> 95, status |-> "PASSED"]

\* ------------------------------------------------------------------
\* Dimension 2: corpus alignment
\* ------------------------------------------------------------------
\* corpus: [exists: BOOLEAN, readable: BOOLEAN, exampleCount, alignmentCount]
validateCorpusAlignment(corpus) ==
  IF corpus.exists /\ corpus.readable
  THEN LET corpusSizeScore == IF corpus.exampleCount >= CorpusTarget THEN 95
                              ELSE Round(corpus.exampleCount * 95, CorpusTarget)
           qualityScore == Round(corpus.alignmentCount * 95, QualityChecks)
           score == Min(95, Round(corpusSizeScore + qualityScore, 2))
       IN [score |-> score, aligned |-> score >= 90]
  ELSE [score |-> 0, aligned |-> FALSE]

\* existsFirst: outcome of the analyzer's own checkPath before validation
analyzeDimension2_Corpus(existsFirst, corpus) ==
  IF ~existsFirst
  THEN [score |-> 0, status |-> "FAILED"]
  ELSE LET corpusChecks == validateCorpusAlignment(corpus)
           score == IF corpusChecks.aligned THEN 95 ELSE corpusChecks.score
       IN [score |-> Min(score, EPISTEMIC_CAP),
           status |-> IF score >= 95 THEN "PASSED" ELSE "DRIFT_DETECTED"]

\* ------------------------------------------------------------------
\* Dimension 3: production evidence
\* ------------------------------------------------------------------
fetchProductionEvidence(healthyCount) ==
  [healthScore |-> Round(healthyCount * 100, EndpointCount),
   allHealthy |-> healthyCount = EndpointCount]

\* A VirusTotal evidence file: unparsable, scan skipped, or a scan with stats
VtFile(kind, malicious, suspicious) ==
  [kind |-> kind, malicious |-> malicious, suspicious |-> suspicious]

\* vt: [exists: BOOLEAN, readdirOk: BOOLEAN, files: Seq(VtFile)]
\* (files lists the *.json evidence files only)
checkVirusTotalEvidence(vt) ==
  IF ~vt.exists
  THEN [securityScore |-> 50, allClean |-> FALSE, hasMalicious |-> FALSE]
  ELSE IF ~vt.readdirOk
  THEN [securityScore |-> 0, allClean |-> FALSE, hasMalicious |-> FALSE]
  ELSE IF vt.files = <<>>
  THEN [securityScore |-> 50, allClean |-> FALSE, hasMalicious |-> FALSE]
  ELSE LET scans == SelectSeq(vt.files, LAMBDA f : f.kind = "scan")
           skippedScans == Len(SelectSeq(vt.files, LAMBDA f : f.kind = "skipped"))
           totalMalicious == SumSeq([i \in 1..Len(scans) |-> scans[i].malicious])
           totalSuspicious == SumSeq([i \in 1..Len(scans) |-> scans[i].suspicious])
           totalScanned == Len(scans)
           hasMalicious == totalMalicious > 0
           allClean == totalMalicious = 0 /\ totalScanned > 0
           penaltyPercent == Min(100, totalMalicious * 10 + totalSuspicious * 5)
       IN [securityScore |->
             IF totalScanned = 0 THEN (IF skippedScans > 0 THEN 75 ELSE 50)
             ELSE IF allClean THEN 95
             ELSE Max(0, 95 - penaltyPercent),
           allClean |-> allClean,
           hasMalicious |-> hasMalicious]

\* cf: "missing" | "error" | "nofiles" | "nodata" | "data"
checkCloudflareAnalytics(cf) ==
  IF cf = "data" THEN [analyticsScore |-> 95, hasData |-> TRUE]
  ELSE [analyticsScore |-> 50, hasData |-> FALSE]

\* variant: the evidence score is emitted without the cap
Dim3CapUncapped(score) == score

Dim3Cap(score) == Min(score, EPISTEMIC_CAP)

\* variant: the status follows the score alone
analyzeDimension3_EvidenceByScore(healthyCount, vt, cf) ==
  LET apiEvidence == fetchProductionEvidence(healthyCount)
      vtEvidence == checkVirusTotalEvidence(vt)
      cfEvidence == checkCloudflareAnalytics(cf)
      score == IF apiEvidence.allHealthy /\ vtEvidence.allClean /\ cfEvidence.hasData
               THEN 95
               ELSE Round(4 * apiEvidence.healthScore + 3 * vtEvidence.securityScore
                          + 3 * cfEvidence.analyticsScore, 10)
  IN [score |-> Dim3Cap(score),
      status |-> IF score < 95 THEN "DEGRADED" ELSE "PASSED"]

analyzeDimension3_Evidence(healthyCount, vt, cf) ==
  LET apiEvidence == fetchProductionEvidence(healthyCount)
      vtEvidence == checkVirusTotalEvidence(vt)
      cfEvidence == checkCloudflareAnalytics(cf)
      score == IF apiEvidence.allHealthy /\ vtEvidence.allClean /\ cfEvidence.hasData
               THEN 95
               ELSE Round(4 * apiEvidence.healthScore + 3 * vtEvidence.securityScore
                          + 3 * cfEvidence.analyticsScore, 10)
      status == IF vtEvidence.hasMalicious THEN "MALICIOUS_DETECTED"
                ELSE IF score < 95 THEN "DEGRADED" ELSE "PASSED"
  IN [score |-> Dim3Cap(score), status |-> status]

\* ------------------------------------------------------------------
\* Dimension 4: temporal decay (percentages in units of 1/30 percent,
\* so that age/10 and age/30 stay exact)
\* ------------------------------------------------------------------
calculateTemporalDecay(lastCommitAge) ==
  IF lastCommitAge <= 7 THEN 0
  ELSE IF lastCommitAge <= 30 THEN Min(3 * 30, 3 * lastCommitAge)
  ELSE Min(10 * 30, lastCommitAge)

analyzeDimension4_Temporal(lastCommitAge) ==
  LET score30 == 95 * 30 - calculateTemporalDecay(lastCommitAge)
  IN [score30 |-> Max(0, Min(score30, EPISTEMIC_CAP * 30)),
      status |-> IF score30 >= 95 * 30 THEN "PASSED" ELSE "DECAYED"]

\* ------------------------------------------------------------------
\* Dimension 5: financial efficiency
\* ------------------------------------------------------------------
\* fin: [exists, readdirOk, files]; a file is unparsable (ok = FALSE) or
\* records an avoided cost
FinFile(ok, cost) == [ok |-> ok, avoided_cost |-> cost]

checkFinancialEfficiency(fin) ==
  IF ~fin.exists \/ ~fin.readdirOk \/ fin.files = <<>>
  THEN [score |-> 50]
  ELSE LET sessions == SelectSeq(fin.files, LAMBDA f : f.ok)
           totalAvoidedCost ==
             SumSeq([i \in 1..Len(sessions) |-> sessions[i].avoided_cost])
       IN [score |-> IF totalAvoidedCost > 0 THEN 95 ELSE 50]

analyzeDimension5_Financial(fin) ==
  LET financial == checkFinancialEfficiency(fin)
  IN [score |-> financial.score,
      status |-> IF financial.score >= 95 THEN "PASSED" ELSE "DEGRADED"]

\* ------------------------------------------------------------------
\* Correlator
\* ------------------------------------------------------------------
Scores(d) == <<d[1].score, d[2].score, d[3].score, d[4].score, d[5].score>>

\* variant: the low-mean test is made before the drift test
StatusOfMeanFirst(hasDrift, sum, n) ==
  IF sum < ConsistencyThreshold * n THEN "INCONSISTENT"
  ELSE IF hasDrift THEN "DRIFT_DETECTED"
  ELSE "GODEL_COMPLIANT"

\* avgScore is the rational SumSeq(scores)/5; comparisons are made on the sum
StatusOf(hasDrift, sum, n) ==
  IF hasDrift THEN "DRIFT_DETECTED"
  ELSE IF sum < ConsistencyThreshold * n THEN "INCONSISTENT"
  ELSE "GODEL_COMPLIANT"

\* variant: the drift is taken between the first and the last dimension only
DriftOfEnds(scores) == scores[1] - scores[Len(scores)]

DriftOf(scores) == MathMax(scores) - MathMin(scores)

\* variant: the final score is truncated instead of rounded
FinalScoreOfTruncated(sum, n) ==
  IF sum <= EPISTEMIC_CAP * n THEN sum \div n ELSE EPISTEMIC_CAP

FinalScoreOf(sum, n) ==
  IF sum <= EPISTEMIC_CAP * n THEN Round(sum, n) ELSE EPISTEMIC_CAP

correlate5D(d) ==
  LET scores == Scores(d)
      sum == SumSeq(scores)
      n == Len(scores)
      maxDrift == DriftOf(scores)
      hasDrift == maxDrift > DriftThreshold
  IN [finalScore |-> FinalScoreOf(sum, n),
      status |-> StatusOf(hasDrift, sum, n),
      avgScore |-> Round(sum, n),
      maxDrift |-> maxDrift,
      hasDrift |-> hasDrift,
      godelCompliant |-> ~hasDrift /\ sum >= ConsistencyThreshold * n,
      epistemicBuffer |-> EPISTEMIC_BUFFER,
      scores |-> scores]

\* ------------------------------------------------------------------
\* Environment seen by the analyzers
\* ------------------------------------------------------------------
Corpus(exists, readable, exampleCount, alignmentCount) ==
  [exists |-> exists, readable |-> readable, exampleCount |-> exampleCount,
   alignmentCount |-> alignmentCount]
Corpora == {Corpus(FALSE, FALSE, 0, 0), Corpus(TRUE, FALSE, 0, 0)}
           \cup {Corpus(TRUE, TRUE, n, k) :
                   n \in {0, 25} \cup ((CorpusTarget - ExampleWindow)..(CorpusTarget + 1)),
                   k \in 0..QualityChecks}

SeqsUpTo(S, n) == UNION {[1..k -> S] : k \in 0..n}
VtDirs == {[exists |-> FALSE, readdirOk |-> TRUE, files |-> <<>>],
           [exists |-> TRUE, readdirOk |-> FALSE, files |-> <<>>]}
          \cup {[exists |-> TRUE, readdirOk |-> TRUE, files |-> fs] :
                  fs \in SeqsUpTo({VtFile("bad", 0, 0), VtFile("skipped", 0, 0),
                                   VtFile("scan", 0, 0), VtFile("scan", 1, 0),
                                   VtFile("scan", 0, 1), VtFile("scan", -1, 0)},
                                  MaxVtFiles)}
CfOutcomes == {"missing", "error", "nofiles", "nodata", "data"}
FinDirs == {[exists |-> FALSE, readdirOk |-> TRUE, files |-> <<>>],
            [exists |-> TRUE, readdirOk |-> FALSE, files |-> <<>>]}
           \cup {[exists |-> TRUE, readdirOk |-> TRUE, files |-> fs] :
                   fs \in SeqsUpTo({FinFile(FALSE, 0), FinFile(TRUE, 0), FinFile(TRUE, 1000)},
                                   MaxFinFiles)}

\* ------------------------------------------------------------------
\* verify(): five analyzers launched together, joined by Promise.all
\* ------------------------------------------------------------------
VerifyStart ==
  /\ vpc \in {"idle", "done"}
  /\ vpc' = "running"
  /\ pcD' = [i \in Dimensions |-> "pending"]
  /\ dims' = [i \in Dimensions |-> Pending]
  /\ correlation' = NoCorrelation
  /\ correlateCalls' = 0
  /\ UNCHANGED evidence
  /\ UNCHANGED clientVars
  /\ UNCHANGED senderVars
  /\ UNCHANGED detectorVars
  /\ UNCHANGED callerVars

Settle(i, result) ==
  /\ vpc = "running"
  /\ pcD[i] = "pending"
  /\ pcD' = [pcD EXCEPT ![i] = "done"]
  /\ dims' = [dims EXCEPT ![i] = result]
  /\ UNCHANGED <<vpc, correlation, correlateCalls, evidence>>
  /\ UNCHANGED clientVars
  /\ UNCHANGED senderVars
  /\ UNCHANGED detectorVars
  /\ UNCHANGED callerVars

Dimension1Done == Settle(1, analyzeDimension1_Commits)

Dimension2Done ==
  \E existsFirst \in BOOLEAN, corpus \in Corpora :
    Settle(2, analyzeDimension2_Corpus(existsFirst, corpus))

Dimension3Done ==
  \E healthyCount \in 0..EndpointCount, vt \in VtDirs, cf \in CfOutcomes :
    Settle(3, analyzeDimension3_Evidence(healthyCount, vt, cf))

\* The age the source computes is fixed (now - (now - 1 day)), so the
\* emitted score is a whole number.
Dimension4Done ==
  LET r == analyzeDimension4_Temporal(LastCommitAgeMock)
  IN Settle(4, [score |-> r.score30 \div 30, status |-> r.status])

Dimension5Done ==
  \E fin \in FinDirs : Settle(5, analyzeDimension5_Financial(fin))

\* variant: the join resumes as soon as one analyzer has settled
AllSettledFirstOnly == \E i \in Dimensions : pcD[i] = "done"

\* await Promise.all([...]): every analyzer promise has fulfilled (each
\* analyzer catches its own errors and returns a result, so none rejects)
AllSettled == \A i \in Dimensions : pcD[i] = "done"

VerifyCorrelate ==
  /\ vpc = "running"
  /\ AllSettled
  /\ correlation' = correlate5D(dims)
  /\ correlateCalls' = correlateCalls + 1
  /\ UNCHANGED evidence
  /\ vpc' = "done"
  /\ UNCHANGED <<pcD, dims>>
  /\ UNCHANGED clientVars
  /\ UNCHANGED senderVars
  /\ UNCHANGED detectorVars
  /\ UNCHANGED callerVars

\* ------------------------------------------------------------------
\* Rule records and registries
\* ------------------------------------------------------------------
RuleIds == {"issue-43", "issue-32", "dayman-nightman-theme", "alpine-base-image",
            "docker-amd64-platform", "live-data-law", "git-directory-breakout"}
PatternIds == {"pA", "pB"}

Impact(min, max, proven) == [present |-> TRUE, min |-> min, max |-> max, proven |-> proven]
NoImpact == [present |-> FALSE, min |-> 0, max |-> 0, proven |-> FALSE]

\* hasPatterns = FALSE: the record lacks pattern.detection.textPatterns
Rule(id, severity, hasPatterns, textPatterns, financialImpact) ==
  [id |-> id, severity |-> severity, hasPatterns |-> hasPatterns,
   textPatterns |-> textPatterns, financialImpact |-> financialImpact]

\* A registry is a function from rule identifiers to rule records
EmptyRegistry == [id \in {} |-> NoImpact]
Put(reg, rule) ==
  [id \in DOMAIN reg \cup {rule.id} |-> IF id = rule.id THEN rule ELSE reg[id]]
RECURSIVE RegistryOf(_)
RegistryOf(rules) ==
  IF rules = <<>> THEN EmptyRegistry
  ELSE Put(RegistryOf(SubSeq(rules, 1, Len(rules) - 1)), rules[Len(rules)])

\* One well-formed record per identifier the checks look up
AllRules ==
  [id \in RuleIds |->
     CASE id = "issue-43" ->
            Rule(id, "CRITICAL", TRUE, <<"pA", "pB">>, Impact(2500000, 6000000, TRUE))
       [] id = "issue-32" -> Rule(id, "HIGH", TRUE, <<"pB">>, NoImpact)
       [] id = "alpine-base-image" ->
            Rule(id, "HIGH", TRUE, <<"pB">>, Impact(50000, 200000, FALSE))
       [] id = "docker-amd64-platform" ->
            Rule(id, "HIGH", TRUE, <<"pA">>, Impact(10000, 50000, TRUE))
       [] id = "live-data-law" ->
            Rule(id, "HIGH", TRUE, <<"pA", "pB">>, Impact(5000, 25000, FALSE))
       [] OTHER -> Rule(id, "MEDIUM", TRUE, <<>>, NoImpact)]

\* Records that lack textPatterns (issue-43) or financialImpact (alpine-base-image)
MalformedRules ==
  [id \in {"issue-43", "alpine-base-image", "git-directory-breakout"} |->
     CASE id = "issue-43" ->
            [AllRules[id] EXCEPT !.hasPatterns = FALSE, !.textPatterns = <<>>]
       [] id = "alpine-base-image" -> [AllRules[id] EXCEPT !.financialImpact = NoImpact]
       [] OTHER -> AllRules[id]]

\* ------------------------------------------------------------------
\* Texts and contexts
\* ------------------------------------------------------------------
\* A text is the set of markers it contains: literal phrases the source looks
\* for, and the identifiers of the rule patterns (regular expressions) it matches.
DocMarkers == {"SECURITY-PHILOSOPHY", "THE LAW", "Born Without Sin", "what NOT to do",
               "What Legacy Enterprises", "Why They Need It | Why You Don't",
               "IMPLEMENTATION-PLAN", "JUDGE-DREDD-AGENT-GUIDE"}
InvestorMarkers == {"ARR", "portfolio value", "Patent #", "**Problem:**",
                    "competitors", "TAM:"}
ThemeElements == {":root CSS variables", "[data-theme=light] styles",
                  "toggleTheme() function", "DAYMAN reference", "NIGHTMAN reference"}
SprawlNames == <<"DDoS Protection", "Private Link", "Enterprise Key Management",
                 "Application Gateway", "Azure Firewall">>
DockerCorrect == {"./build-and-push.sh", "--platform linux/amd64"}
LiveDataCorrect == {"fetch('/health')", "getElementById(version)", "updateSprintStats",
                    "textContent = data.", "// Version from API"}
BreakoutShapes == {"cd ../.. && git", "cd .. && cd .. && git"}
TestEvidence == {"test local", "local test", "verified local", "curl localhost"}
ExpensivePatterns == <<{"$500/month", "$5000/month"}, {"$1000/month", "$5000/month"}>>

\* Context files and the path predicates of the checks
NoFile == "none"
WorkflowFile == ".github/workflows/deploy.yml"
DeployPage == "deploy/public/index.html"
IsWorkflowChange(ctx) == ctx.file \in {WorkflowFile, DeployPage}
IsCustomerFacingHTML(ctx) == ctx.file \in {DeployPage}
IsRelevantFile(ctx) == ctx.file \in {DeployPage}

isDocumentation(t) == t \cap DocMarkers # {}
isInvestorMaterials(t) == t \cap InvestorMarkers # {}

\* ------------------------------------------------------------------
\* Findings
\* ------------------------------------------------------------------
Finding(type, severity, incident, financialRisk) ==
  [type |-> type, severity |-> severity, incident |-> incident,
   financialRisk |-> financialRisk]
Commendation(type) == [type |-> type]

\* The detector's accumulating fields during one analyze call
Fields(v, w, c) == [violations |-> v, warnings |-> w, commendations |-> c, threw |-> FALSE]
Throw(d) == [d EXCEPT !.threw = TRUE]

PushViolation(d, f) == [d EXCEPT !.violations = @ \o <<f>>]
PushWarning(d, f) == [d EXCEPT !.warnings = @ \o <<f>>]
PushCommendation(d, c) == [d EXCEPT !.commendations = @ \o <<c>>]

\* The shape shared by the pattern-table checks: look the rule up, build the
\* RegExp list, push one violation on the first match and break.
PatternCheck(d, reg, t, id, type, severity, label, usesImpact) ==
  IF id \notin DOMAIN reg THEN d
  ELSE LET incident == reg[id] IN
    IF ~incident.hasPatterns THEN Throw(d)
    ELSE IF \A i \in 1..Len(incident.textPatterns) : incident.textPatterns[i] \notin t
    THEN d
    ELSE IF usesImpact /\ ~incident.financialImpact.present THEN Throw(d)
    ELSE PushViolation(d, Finding(type, severity, label,
                                  IF usesImpact THEN incident.financialImpact
                                  ELSE NoImpact))

\* variant: the violation is pushed without the rule's financial impact
checkIssue43PatternNoRisk(d, reg, t, ctx) ==
  PatternCheck(d, reg, t, "issue-43", "SECURITY_CONTROL_REMOVAL", "CRITICAL",
               "Issue #43", FALSE)

checkIssue43Pattern(d, reg, t, ctx) ==
  PatternCheck(d, reg, t, "issue-43", "SECURITY_CONTROL_REMOVAL", "CRITICAL",
               "Issue #43", TRUE)

checkIssue32Pattern(d, reg, t, ctx) ==
  PatternCheck(d, reg, t, "issue-32", "NO_NGINX_LAW", "HIGH", "Issue #32", FALSE)

checkIssue41Pattern(d, reg, t, ctx) ==
  IF IsWorkflowChange(ctx) /\ t \cap TestEvidence = {}
  THEN PushWarning(d, Finding("UNTESTED_DEPLOY", "HIGH", "Issue #41", NoImpact))
  ELSE d

checkDaymanNightmanTheme(d, reg, t, ctx) ==
  IF "dayman-nightman-theme" \notin DOMAIN reg THEN d
  ELSE IF ~IsCustomerFacingHTML(ctx) THEN d
  ELSE IF ThemeElements \ t # {}
  THEN PushWarning(d, Finding("MISSING_THEME_SYSTEM", "MEDIUM",
                              "DAYMAN/NIGHTMAN Theme", NoImpact))
  ELSE d

checkAlpineBaseImagePattern(d, reg, t, ctx) ==
  PatternCheck(d, reg, t, "alpine-base-image", "ALPINE_BASE_IMAGE", "HIGH",
               "Alpine Base Image", TRUE)

checkDockerAmd64PlatformPattern(d, reg, t, ctx) ==
  IF "docker-amd64-platform" \notin DOMAIN reg THEN d
  ELSE IF t \cap DockerCorrect # {} THEN d
  ELSE PatternCheck(d, reg, t, "docker-amd64-platform", "DOCKER_AMD64_PLATFORM",
                    "HIGH", "Docker AMD64 Platform", TRUE)

checkLiveDataLawPattern(d, reg, t, ctx) ==
  IF "live-data-law" \notin DOMAIN reg THEN d
  ELSE IF ~IsRelevantFile(ctx) THEN d
  ELSE IF t \cap LiveDataCorrect # {} THEN d
  ELSE PatternCheck(d, reg, t, "live-data-law", "HARDCODED_LIVE_DATA", "HIGH",
                    "Live Data Law", TRUE)

checkGitDirectoryBreakout(d, reg, t, ctx) ==
  IF "git-directory-breakout" \notin DOMAIN reg THEN d
  ELSE IF t \cap BreakoutShapes # {}
  THEN PushViolation(d, Finding("GIT_DIRECTORY_BREAKOUT", "MEDIUM", "Issue #95", NoImpact))
  ELSE d

RECURSIVE SprawlFrom(_, _, _)
SprawlFrom(d, t, i) ==
  IF i > Len(SprawlNames) THEN d
  ELSE SprawlFrom(IF SprawlNames[i] \in t
                  THEN PushViolation(d, Finding("ENTERPRISE_SPRAWL", "CRITICAL",
                                                "none", NoImpact))
                  ELSE d, t, i + 1)

\* skipCostChecks is accepted and never consulted
checkEnterpriseSprawl(d, t, ctx, skipCostChecks) == SprawlFrom(d, t, 1)

checkHardcodedData(d, reg, t, ctx) == checkLiveDataLawPattern(d, reg, t, ctx)

checkCostEfficiency(d, t, ctx, skipCostChecks) ==
  IF skipCostChecks THEN d
  ELSE IF \E i \in 1..Len(ExpensivePatterns) : t \cap ExpensivePatterns[i] # {}
  THEN PushWarning(d, Finding("COST_INEFFICIENCY", "HIGH", "none", NoImpact))
  ELSE d

checkCommendations(d, t) ==
  LET c1 == IF "cost" \in t /\ ("reduction" \in t \/ "efficiency" \in t)
            THEN <<Commendation("COST_EFFICIENCY")>> ELSE <<>>
      c2 == IF "soc1" \in t \/ "compliance" \in t
            THEN <<Commendation("SOC1_FOCUS")>> ELSE <<>>
      c3 == IF "cisa" \in t \/ "zero-day" \in t \/ "kev" \in t
            THEN <<Commendation("ZERO_DAY_PROTECTION")>> ELSE <<>>
      c4 == IF "born without sin" \in t \/ "no legacy" \in t
            THEN <<Commendation("PHILOSOPHICAL_ALIGNMENT")>> ELSE <<>>
  IN [d EXCEPT !.commendations = @ \o c1 \o c2 \o c3 \o c4]

\* variant: warnings count as violations in the flags
getResultsCountingWarnings(d) ==
  [violations |-> d.violations,
   warnings |-> d.warnings,
   commendations |-> d.commendations,
   hasViolations |-> Len(d.violations) + Len(d.warnings) > 0,
   hasCritical |-> \E i \in 1..Len(d.violations) : d.violations[i].severity = "CRITICAL",
   threw |-> d.threw]

getResults(d) ==
  [violations |-> d.violations,
   warnings |-> d.warnings,
   commendations |-> d.commendations,
   hasViolations |-> Len(d.violations) > 0,
   hasCritical |-> \E i \in 1..Len(d.violations) : d.violations[i].severity = "CRITICAL",
   threw |-> d.threw]

\* The checks of analyze after the exemptions, in source order
CheckOrder ==
  <<"checkIssue43Pattern", "checkIssue32Pattern", "checkIssue41Pattern",
    "checkDaymanNightmanTheme", "checkAlpineBaseImagePattern",
    "checkDockerAmd64PlatformPattern", "checkLiveDataLawPattern",
    "checkGitDirectoryBreakout", "checkEnterpriseSprawl", "checkHardcodedData",
    "checkCostEfficiency", "checkCommendations">>

RunCheck(name, d, reg, t, ctx, skipCostChecks) ==
  CASE name = "checkIssue43Pattern" -> checkIssue43Pattern(d, reg, t, ctx)
    [] name = "checkIssue32Pattern" -> checkIssue32Pattern(d, reg, t, ctx)
    [] name = "checkIssue41Pattern" -> checkIssue41Pattern(d, reg, t, ctx)
    [] name = "checkDaymanNightmanTheme" -> checkDaymanNightmanTheme(d, reg, t, ctx)
    [] name = "checkAlpineBaseImagePattern" -> checkAlpineBaseImagePattern(d, reg, t, ctx)
    [] name = "checkDockerAmd64PlatformPattern" ->
         checkDockerAmd64PlatformPattern(d, reg, t, ctx)
    [] name = "checkLiveDataLawPattern" -> checkLiveDataLawPattern(d, reg, t, ctx)
    [] name = "checkGitDirectoryBreakout" -> checkGitDirectoryBreakout(d, reg, t, ctx)
    [] name = "checkEnterpriseSprawl" -> checkEnterpriseSprawl(d, t, ctx, skipCostChecks)
    [] name = "checkHardcodedData" -> checkHardcodedData(d, reg, t, ctx)
    [] name = "checkCostEfficiency" -> checkCostEfficiency(d, t, ctx, skipCostChecks)
    [] OTHER -> checkCommendations(d, t)

\* A check runs only if no earlier check of the call has thrown
RECURSIVE RunFrom(_, _, _, _, _, _)
RunFrom(d, reg, t, ctx, skipCostChecks, i) ==
  IF i > Len(CheckOrder) \/ d.threw THEN d
  ELSE RunFrom(RunCheck(CheckOrder[i], d, reg, t, ctx, skipCostChecks),
               reg, t, ctx, skipCostChecks, i + 1)

\* isInvestorMaterials decides skipCostChecks and the INVESTOR_MATERIALS commendation
RunChecks(d0, reg, t, ctx) ==
  IF isInvestorMaterials(t)
  THEN RunFrom(PushCommendation(d0, Commendation("INVESTOR_MATERIALS")),
               reg, t, ctx, TRUE, 1)
  ELSE RunFrom(d0, reg, t, ctx, FALSE, 1)

\* variant: the documentation exemption emits its commendation and falls through
analyzeLoadedNoReturn(d0, reg, t, ctx) ==
  IF isDocumentation(t)
  THEN RunChecks(PushCommendation(d0, Commendation("DOCUMENTATION")), reg, t, ctx)
  ELSE RunChecks(d0, reg, t, ctx)

\* analyze(text, context) from the point where the registry is loaded;
\* d0 holds the detector's fields as the call reset them
analyzeLoaded(d0, reg, t, ctx) ==
  IF isDocumentation(t)
  THEN PushCommendation(d0, Commendation("DOCUMENTATION"))
  ELSE RunChecks(d0, reg, t, ctx)

\* variant: the fields are not cleared at the start of a call
ResetFindingsKeep(current) == current

\* this.violations = []; this.warnings = []; this.commendations = [];
ResetFindings(current) == <<>>

\* ------------------------------------------------------------------
\* Remote sync client: configuration and rule fetch
\* ------------------------------------------------------------------
Null == "null"
Config(isNull, ep, key, token) ==
  [isNull |-> isNull, endpoint |-> ep, apiKey |-> key, oauthToken |-> token]

\* variant: a call without endpoint or credentials leaves enabled as it was
configureNoDisable(config, en, ep, key) ==
  IF config.isNull \/ config.endpoint = Null
  THEN [enabled |-> en, endpoint |-> ep, apiKey |-> key]
  ELSE IF config.apiKey = Null /\ config.oauthToken = Null
  THEN [enabled |-> en, endpoint |-> ep, apiKey |-> key]
  ELSE [enabled |-> TRUE, endpoint |-> config.endpoint,
        apiKey |-> IF config.apiKey # Null THEN config.apiKey ELSE config.oauthToken]

\* configure(config): returns the client fields after the call
configure(config, en, ep, key) ==
  IF config.isNull \/ config.endpoint = Null
  THEN [enabled |-> FALSE, endpoint |-> ep, apiKey |-> key]
  ELSE IF config.apiKey = Null /\ config.oauthToken = Null
  THEN [enabled |-> FALSE, endpoint |-> ep, apiKey |-> key]
  ELSE [enabled |-> TRUE, endpoint |-> config.endpoint,
        apiKey |-> IF config.apiKey # Null THEN config.apiKey ELSE config.oauthToken]

\* Outcome of the GET: a failure kind, or a 2xx body with or without "patterns"
Remote(kind, hasPatterns, patterns) ==
  [kind |-> kind, hasPatterns |-> hasPatterns, patterns |-> patterns]

\* variant: a failed GET is repeated once before the empty set is returned
fetchIncidentPatternsRetrying(en, remote) ==
  IF ~en THEN [patterns |-> EmptyRegistry, gets |-> 0, threw |-> FALSE]
  ELSE IF remote.kind = "ok"
  THEN [patterns |-> IF remote.hasPatterns THEN remote.patterns ELSE EmptyRegistry,
        gets |-> 1, threw |-> FALSE]
  ELSE [patterns |-> EmptyRegistry, gets |-> 2, threw |-> FALSE]

\* fetchIncidentPatterns(): [patterns, gets, threw]
fetchIncidentPatterns(en, remote) ==
  IF ~en THEN [patterns |-> EmptyRegistry, gets |-> 0, threw |-> FALSE]
  ELSE IF remote.kind = "ok"
  THEN [patterns |-> IF remote.hasPatterns THEN remote.patterns ELSE EmptyRegistry,
        gets |-> 1, threw |-> FALSE]
  ELSE [patterns |-> EmptyRegistry, gets |-> 1, threw |-> FALSE]

\* What one call of fetchIncidentPatterns met and returned
Fetched(en, remote) ==
  LET r == fetchIncidentPatterns(en, remote) IN
    [called |-> TRUE, enabled |-> en, ok |-> remote.kind = "ok",
     hasPatterns |-> remote.hasPatterns, body |-> remote.patterns,
     patterns |-> r.patterns, gets |-> r.gets, threw |-> r.threw]

\* ------------------------------------------------------------------
\* Rule registry: loadIncidentPatterns
\* ------------------------------------------------------------------
\* A file of the local fallback directory
LocalFile(json, parses, incident) == [json |-> json, parses |-> parses, incident |-> incident]
LocalDir(readable, files) == [readable |-> readable, files |-> files]

\* The for-loop of the fallback: the first unparsable .json file throws
RECURSIVE ReadFiles(_, _)
ReadFiles(reg, files) ==
  IF files = <<>> THEN [rules |-> reg, threw |-> FALSE]
  ELSE LET f == Head(files) IN
    IF ~f.json THEN ReadFiles(reg, Tail(files))
    ELSE IF ~f.parses THEN [rules |-> reg, threw |-> TRUE]
    ELSE ReadFiles(Put(reg, f.incident), Tail(files))

\* What the catch block leaves in this.incidents
OnLoadFailure(partial) == EmptyRegistry

\* The local fallback of loadIncidentPatterns: [rules, ret]
localFallback(dir) ==
  IF ~dir.readable THEN [rules |-> OnLoadFailure(EmptyRegistry), ret |-> FALSE]
  ELSE LET r == ReadFiles(EmptyRegistry, dir.files) IN
    IF r.threw THEN [rules |-> OnLoadFailure(r.rules), ret |-> FALSE]
    ELSE [rules |-> r.rules, ret |-> TRUE]

Loaded(reg) == [isNull |-> FALSE, rules |-> reg]
NotLoaded == [isNull |-> TRUE, rules |-> EmptyRegistry]

LoadRecord(called, en, fetched, remoteFailed, localRead, localRules, source, ret, raised) ==
  [called |-> called, enabledAtCall |-> en, fetched |-> fetched,
   remoteFailed |-> remoteFailed, localRead |-> localRead, localRules |-> localRules,
   remoteRules |-> EmptyRegistry, source |-> source, ret |-> ret, raised |-> raised]
NoLoad == LoadRecord(FALSE, FALSE, FALSE, FALSE, "none", EmptyRegistry, "NONE", FALSE, FALSE)

NoFindings == getResults(Fields(<<>>, <<>>, <<>>))
\* repeated: the call followed another analyze call with the registry unchanged
\* in between; stale: the registry has changed since the call returned
CallRecord(called, result, repeated, stale) ==
  [called |-> called, result |-> result, repeated |-> repeated, stale |-> stale]
NoCall == CallRecord(FALSE, NoFindings, FALSE, FALSE)

\* ------------------------------------------------------------------
\* Inputs of the detector
\* ------------------------------------------------------------------
Texts ==
  {ex \cup m \cup x :
     ex \in {{}, {"THE LAW"}, {"ARR"}, {"THE LAW", "ARR"}},
     m \in SUBSET PatternIds,
     x \in {{}, {"./build-and-push.sh"}, {"updateSprintStats"}, {"cd ../.. && git"},
           {"curl localhost"}, ThemeElements, {"Private Link"},
           {"Private Link", "Azure Firewall"}, {"$500/month"}, {"compliance"},
           {"Private Link", "$500/month"}}}
RegistryTexts == {{}, {"pA"}, {"pB", "cd ../.. && git"}, {"THE LAW", "pA"}}
Contexts == {[file |-> f] : f \in {NoFile, WorkflowFile, DeployPage}}

RemoteOutcomes == {Remote(k, FALSE, EmptyRegistry) : k \in {"timeout", "network", "non2xx", "ok"}}
                  \cup {Remote("ok", TRUE, r) : r \in {EmptyRegistry, AllRules, MalformedRules}}
LocalDirs == {LocalDir(FALSE, <<>>)}
             \cup {LocalDir(TRUE, fs) : fs \in SeqsUpTo(
                    {LocalFile(FALSE, FALSE, AllRules["issue-43"]), LocalFile(TRUE, FALSE, AllRules["issue-43"]),
                    LocalFile(TRUE, TRUE, AllRules["issue-43"]), LocalFile(TRUE, TRUE, AllRules["live-data-law"])},
                    MaxLocalFiles)}
\* A smaller environment for the specification that explores the texts
\* The last body stores the issue-32 record with severity MEDIUM
AnalysisRemotes == {Remote("timeout", FALSE, EmptyRegistry), Remote("ok", TRUE, AllRules),
                    Remote("ok", TRUE, MalformedRules),
                    Remote("ok", TRUE, [id \in {"issue-32"} |->
                                          [AllRules[id] EXCEPT !.severity = "MEDIUM"]])}
AnalysisDirs == {LocalDir(FALSE, <<>>),
                 LocalDir(TRUE, <<LocalFile(TRUE, TRUE, AllRules["issue-43"])>>),
                 LocalDir(TRUE, <<LocalFile(TRUE, TRUE, AllRules["issue-43"]), LocalFile(TRUE, TRUE, AllRules["live-data-law"])>>)}

\* ------------------------------------------------------------------
\* Detector operations
\* ------------------------------------------------------------------
Configure(configs) ==
  /\ \E config \in configs :
       LET c == configure(config, enabled, endpoint, apiKey) IN
         /\ enabled' = c.enabled
         /\ endpoint' = c.endpoint
         /\ apiKey' = c.apiKey
         /\ lastConfig' = [called |-> TRUE, config |-> config]
  /\ UNCHANGED lastFetch

DetectorConfigure ==
  /\ dpc = "idle"
  /\ Configure({Config(FALSE, "https://brain", "key", Null)})
  /\ UNCHANGED senderVars
  /\ UNCHANGED detectorVars
  /\ UNCHANGED verifierVars
  /\ UNCHANGED callerVars

\* The rest of analyze once the registry is there: the checks run on the
\* fields as reset at the start of the call
CompleteAnalyze(d0, reg) ==
  LET d == analyzeLoaded(d0, reg, text, context) IN
    /\ violations' = d.violations
    /\ warnings' = d.warnings
    /\ commendations' = d.commendations
    /\ lastResult' = CallRecord(TRUE, getResults(d),
                                lastResult.called /\ ~lastResult.stale, FALSE)

\* A load that finishes resumes the analyze call that awaited it, if any
FinishLoad(reg) ==
  /\ incidents' = Loaded(reg)
  /\ dpc' = "idle"
  /\ caller' = "none"
  /\ IF caller = "analyze"
     THEN CompleteAnalyze(Fields(violations, warnings, commendations), reg)
     ELSE /\ lastResult' = [lastResult EXCEPT
                               !.stale = lastResult.called /\
                                         (@ \/ incidents.isNull \/ reg # incidents.rules)]
          /\ UNCHANGED <<violations, warnings, commendations>>

BeginLoad(who) ==
  /\ caller' = who
  /\ dpc' = IF enabled THEN "fetch" ELSE "local"
  /\ lastLoad' = LoadRecord(FALSE, enabled, FALSE, FALSE, "none", EmptyRegistry,
                            "NONE", FALSE, FALSE)

\* explicit loadIncidentPatterns()
LoadStart ==
  /\ dpc = "idle"
  /\ BeginLoad("load")
  /\ UNCHANGED <<incidents, violations, warnings, commendations, text, context,
                 lastResult>>
  /\ UNCHANGED clientVars
  /\ UNCHANGED senderVars
  /\ UNCHANGED verifierVars
  /\ UNCHANGED callerVars

\* the GET of fetchIncidentPatterns settles
FetchReturn(remotes) ==
  /\ dpc = "fetch"
  /\ \E remote \in remotes :
       LET live == Fetched(lastLoad.enabledAtCall, remote) IN
         /\ lastFetch' = live
         /\ IF ~live.threw /\ Cardinality(DOMAIN live.patterns) > 0
            THEN /\ lastLoad' = [LoadRecord(TRUE, lastLoad.enabledAtCall, TRUE, FALSE,
                                            "none", EmptyRegistry, "LIVE", TRUE, FALSE)
                                   EXCEPT !.remoteRules = live.patterns]
                 /\ FinishLoad(live.patterns)
            ELSE /\ lastLoad' = [lastLoad EXCEPT !.fetched = TRUE,
                                                 !.remoteFailed = remote.kind # "ok"]
                 /\ dpc' = "local"
                 /\ UNCHANGED <<incidents, violations, warnings, commendations,
                                lastResult, caller>>
  /\ UNCHANGED <<text, context>>
  /\ UNCHANGED <<enabled, endpoint, apiKey, lastConfig>>
  /\ UNCHANGED senderVars
  /\ UNCHANGED verifierVars
  /\ UNCHANGED callerVars

\* the local fallback directory is read
LocalFallback(dirs) ==
  /\ dpc = "local"
  /\ \E dir \in dirs :
       LET r == localFallback(dir) IN
         /\ lastLoad' = [lastLoad EXCEPT
                           !.called = TRUE,
                           !.localRead = IF ~dir.readable THEN "unreadable"
                                         ELSE IF \E i \in 1..Len(dir.files) :
                                                   dir.files[i].json /\ ~dir.files[i].parses
                                         THEN "parsefail" ELSE "ok",
                           !.localRules = RegistryOf(
                               [i \in 1..Len(SelectSeq(dir.files, LAMBDA f : f.json /\ f.parses)) |->
                                  SelectSeq(dir.files, LAMBDA f : f.json /\ f.parses)[i].incident]),
                           !.source = "LOCAL",
                           !.ret = r.ret]
         /\ FinishLoad(r.rules)
  /\ UNCHANGED <<text, context>>
  /\ UNCHANGED clientVars
  /\ UNCHANGED senderVars
  /\ UNCHANGED verifierVars
  /\ UNCHANGED callerVars

\* analyze(text, context)
Analyze ==
  /\ dpc = "idle"
  /\ IF incidents.isNull
     THEN /\ violations' = ResetFindings(violations)
          /\ warnings' = ResetFindings(warnings)
          /\ commendations' = ResetFindings(commendations)
          /\ BeginLoad("analyze")
          /\ UNCHANGED <<incidents, lastResult>>
     ELSE /\ CompleteAnalyze(Fields(ResetFindings(violations), ResetFindings(warnings),
                                    ResetFindings(commendations)), incidents.rules)
          /\ UNCHANGED <<incidents, lastLoad, dpc, caller>>
  /\ UNCHANGED <<text, context>>
  /\ UNCHANGED clientVars
  /\ UNCHANGED senderVars
  /\ UNCHANGED verifierVars
  /\ UNCHANGED callerVars

InitClient ==
  /\ enabled = FALSE
  /\ endpoint = Null
  /\ apiKey = Null
  /\ lastFetch = [called |-> FALSE, enabled |-> FALSE, ok |-> FALSE, hasPatterns |-> FALSE,
                  body |-> EmptyRegistry, patterns |-> EmptyRegistry, gets |-> 0,
                  threw |-> FALSE]
  /\ lastConfig = [called |-> FALSE, config |-> Config(TRUE, Null, Null, Null)]
  /\ spc = "idle"
  /\ attempt = 0
  /\ posts = 0
  /\ waits = <<>>
  /\ outcomes = <<>>
  /\ dropped = FALSE
  /\ events = 0

InitDetectorFields ==
  /\ incidents = NotLoaded
  /\ violations = <<>>
  /\ warnings = <<>>
  /\ commendations = <<>>
  /\ lastLoad = NoLoad
  /\ lastResult = NoCall
  /\ dpc = "idle"
  /\ caller = "none"

\* No entry point is running and no analyze call is in flight
NoHandler == [kind |-> "none", pc |-> "idle", awaits |-> FALSE, status |-> "none",
              sendAtResponse |-> "none"]
IdleCall == [pc |-> "idle", text |-> {}, context |-> [file |-> NoFile], next |-> 0,
             skipCostChecks |-> FALSE, reg |-> EmptyRegistry,
             result |-> NoFindings, aliased |-> FALSE, loaded |-> FALSE,
             files |-> <<>>, duringLoad |-> FALSE]
IdleCallers ==
  /\ handler = NoHandler
  /\ calls = [c \in 1..MaxCalls |-> IdleCall]

IdleVerifier ==
  /\ vpc = "idle"
  /\ pcD = [i \in Dimensions |-> "idle"]
  /\ dims = [i \in Dimensions |-> Pending]
  /\ correlation = NoCorrelation
  /\ correlateCalls = 0
  /\ evidence = [dimension |-> 0, pending |-> FALSE]

InitDetector ==
  /\ InitClient
  /\ InitDetectorFields
  /\ text \in Texts
  /\ context \in Contexts
  /\ IdleVerifier
  /\ IdleCallers

NextDetector ==
  \/ DetectorConfigure
  \/ LoadStart
  \/ FetchReturn(AnalysisRemotes)
  \/ LocalFallback(AnalysisDirs)
  \/ Analyze

InitRegistry ==
  /\ InitClient
  /\ InitDetectorFields
  /\ text \in RegistryTexts
  /\ context \in Contexts
  /\ IdleVerifier
  /\ IdleCallers

NextRegistry ==
  \/ DetectorConfigure
  \/ LoadStart
  \/ FetchReturn(RemoteOutcomes)
  \/ LocalFallback(LocalDirs)
  \/ Analyze

vars == <<enabled, endpoint, apiKey, lastFetch, lastConfig, spc, attempt, posts, waits, outcomes, dropped,
          events, incidents, violations, warnings, commendations,
          text, context, lastLoad, lastResult, dpc, caller,
          vpc, pcD, dims, correlation, correlateCalls, evidence, handler, calls>>

SpecDetector == InitDetector /\ [][NextDetector]_vars
SpecRegistry == InitRegistry /\ [][NextRegistry]_vars

\* ------------------------------------------------------------------
\* Overlapping analyze calls on one detector instance. A call runs from one
\* await to the next without interruption; between two awaits of one call
\* the other calls may run.
\* ------------------------------------------------------------------
\* getResults() returns the detector's own arrays: a result handed out stays
\* the same object as this.violations / this.warnings / this.commendations
\* until the next analyze call assigns fresh arrays
Share(cs, d) ==
  [c \in DOMAIN cs |->
     IF cs[c].pc = "returned" /\ cs[c].aliased
     THEN [cs[c] EXCEPT !.result.violations = d.violations,
                        !.result.warnings = d.warnings,
                        !.result.commendations = d.commendations]
     ELSE cs[c]]

\* The call returns getResults() (or rejects when d.threw)
Return(cs, c, d) ==
  [Share(cs, d) EXCEPT ![c].pc = "returned", ![c].result = getResults(d),
                       ![c].aliased = ~d.threw]

\* analyze from the exemption tests to its first await: the documentation
\* exemption returns at once, otherwise the first check runs
Resume(cs, c, d0, reg) ==
  LET t == cs[c].text
      inv == isInvestorMaterials(t)
      d1 == IF inv THEN PushCommendation(d0, Commendation("INVESTOR_MATERIALS")) ELSE d0
      d == IF isDocumentation(t)
           THEN PushCommendation(d0, Commendation("DOCUMENTATION"))
           ELSE RunCheck(CheckOrder[1], d1, reg, t, cs[c].context, inv)
  IN /\ violations' = d.violations
     /\ warnings' = d.warnings
     /\ commendations' = d.commendations
     /\ calls' = LET seen == [cs EXCEPT ![c].duringLoad =
                                  ~isDocumentation(t) /\
                                  \E c2 \in DOMAIN cs \ {c} : cs[c2].pc = "reading"]
                 IN IF isDocumentation(t) \/ d.threw
                    THEN Return(seen, c, d)
                    ELSE [Share(seen, d) EXCEPT ![c].pc = "checks", ![c].next = 2,
                                                ![c].skipCostChecks = inv]

\* analyze(text, context) is called: the fields are reset, then the call
\* awaits the lazy load or goes on to the checks (calls are numbered in the
\* order in which they are made)
CallStart ==
  /\ \E c \in DOMAIN calls, t \in {{"pA", "Private Link"}, {"THE LAW"}},
        ctx \in {[file |-> WorkflowFile]} :
       /\ calls[c].pc = "idle"
       /\ \A earlier \in 1..(c - 1) : calls[earlier].pc # "idle"
       /\ LET cs == [c2 \in DOMAIN calls |->
                      IF c2 = c
                      THEN [calls[c] EXCEPT !.text = t, !.context = ctx,
                                            !.reg = incidents.rules]
                      ELSE [calls[c2] EXCEPT !.aliased = FALSE]]
          IN IF incidents.isNull
             THEN /\ violations' = ResetFindings(violations)
                  /\ warnings' = ResetFindings(warnings)
                  /\ commendations' = ResetFindings(commendations)
                  /\ calls' = [cs EXCEPT ![c].pc = "local", ![c].loaded = TRUE]
             ELSE Resume(cs, c, Fields(ResetFindings(violations), ResetFindings(warnings),
                                       ResetFindings(commendations)), incidents.rules)
  /\ UNCHANGED <<incidents, text, context, lastLoad, lastResult, dpc, caller, handler>>
  /\ UNCHANGED clientVars
  /\ UNCHANGED senderVars
  /\ UNCHANGED verifierVars

\* the readdir of the lazy load awaited by a call settles: on failure the
\* catch block assigns {} and the call goes on; otherwise this.incidents = {}
\* and the load awaits the first .json file, or is finished when there is none
CallLoad ==
  /\ \E c \in DOMAIN calls,
        dir \in {LocalDir(FALSE, <<>>), LocalDir(TRUE, <<LocalFile(TRUE, TRUE, AllRules["issue-43"])>>)} :
       /\ calls[c].pc = "local"
       /\ LET jsonFiles == SelectSeq(dir.files, LAMBDA f : f.json) IN
            IF dir.readable /\ jsonFiles # <<>>
            THEN /\ incidents' = Loaded(EmptyRegistry)
                 /\ calls' = [calls EXCEPT ![c].pc = "reading", ![c].files = jsonFiles]
                 /\ UNCHANGED <<violations, warnings, commendations>>
            ELSE /\ incidents' = Loaded(localFallback(dir).rules)
                 /\ Resume([calls EXCEPT ![c].reg = localFallback(dir).rules], c,
                           Fields(violations, warnings, commendations),
                           localFallback(dir).rules)
  /\ UNCHANGED <<text, context, lastLoad, lastResult, dpc, caller, handler>>
  /\ UNCHANGED clientVars
  /\ UNCHANGED senderVars
  /\ UNCHANGED verifierVars

\* a readFile of the load settles: the record is put into this.incidents (a
\* file that does not parse makes the catch block assign {}); after the last
\* file the load returns and the call goes on
CallRead ==
  /\ \E c \in DOMAIN calls :
       /\ calls[c].pc = "reading"
       /\ LET f == Head(calls[c].files)
              reg == IF f.parses THEN Put(incidents.rules, f.incident)
                     ELSE OnLoadFailure(incidents.rules)
          IN /\ incidents' = Loaded(reg)
             /\ IF f.parses /\ Tail(calls[c].files) # <<>>
                THEN /\ calls' = [calls EXCEPT ![c].files = Tail(@)]
                     /\ UNCHANGED <<violations, warnings, commendations>>
                ELSE Resume([calls EXCEPT ![c].reg = reg, ![c].files = <<>>], c,
                            Fields(violations, warnings, commendations), reg)
  /\ UNCHANGED <<text, context, lastLoad, lastResult, dpc, caller, handler>>
  /\ UNCHANGED clientVars
  /\ UNCHANGED senderVars
  /\ UNCHANGED verifierVars

\* a call resumes after an await: the next check runs, or the call returns
CallStep ==
  /\ \E c \in DOMAIN calls :
       /\ calls[c].pc = "checks"
       /\ LET d0 == Fields(violations, warnings, commendations)
              d == IF calls[c].next > Len(CheckOrder) THEN d0
                   ELSE RunCheck(CheckOrder[calls[c].next], d0, incidents.rules,
                                 calls[c].text, calls[c].context, calls[c].skipCostChecks)
          IN /\ violations' = d.violations
             /\ warnings' = d.warnings
             /\ commendations' = d.commendations
             /\ calls' = LET seen == [calls EXCEPT ![c].duringLoad =
                                          @ \/ (calls[c].next <= Len(CheckOrder) /\
                                                \E c2 \in DOMAIN calls \ {c} :
                                                  calls[c2].pc = "reading")]
                         IN IF calls[c].next > Len(CheckOrder) \/ d.threw
                            THEN Return(seen, c, d)
                            ELSE [Share(seen, d) EXCEPT ![c].next = @ + 1]
  /\ UNCHANGED <<incidents, text, context, lastLoad, lastResult, dpc, caller, handler>>
  /\ UNCHANGED clientVars
  /\ UNCHANGED senderVars
  /\ UNCHANGED verifierVars

InitOverlap ==
  /\ InitClient
  /\ InitDetectorFields
  /\ text = {}
  /\ context = [file |-> NoFile]
  /\ IdleVerifier
  /\ IdleCallers

NextOverlap ==
  \/ CallStart
  \/ CallLoad
  \/ CallRead
  \/ CallStep

SpecOverlap == InitOverlap /\ [][NextOverlap]_vars

\* ------------------------------------------------------------------
\* Specification of one verifier: repeated verify() passes
\* ------------------------------------------------------------------
InitVerify ==
  /\ InitClient
  /\ InitDetectorFields
  /\ text = {}
  /\ context = [file |-> NoFile]
  /\ IdleVerifier
  /\ IdleCallers

NextVerify ==
  \/ VerifyStart
  \/ Dimension1Done
  \/ Dimension2Done
  \/ Dimension3Done
  \/ Dimension4Done
  \/ Dimension5Done
  \/ VerifyCorrelate

\* ------------------------------------------------------------------
\* Specification of the analyzers of dimensions 2, 3 and 4 as functions of
\* what they read: each call returns its result together with its evidence
\* ------------------------------------------------------------------
MaxAge == 301

\* an analyzer is called and awaits what it reads
AnalyzerCalled ==
  /\ ~evidence.pending
  /\ \E dimension \in {2, 3, 4} : evidence' = [dimension |-> dimension, pending |-> TRUE]
  /\ UNCHANGED <<vpc, pcD, dims, correlation, correlateCalls>>
  /\ UNCHANGED clientVars
  /\ UNCHANGED senderVars
  /\ UNCHANGED detectorVars
  /\ UNCHANGED callerVars

\* the analyzer returns its DimensionResult, which carries the evidence
AnalyzerReturns ==
  /\ evidence.pending
  /\ \/ \E existsFirst \in BOOLEAN, corpus \in Corpora :
          /\ evidence.dimension = 2
          /\ evidence' = [dimension |-> 2, pending |-> FALSE,
                          found |-> existsFirst /\ corpus.exists /\ corpus.readable,
                          exampleCount |-> corpus.exampleCount,
                          alignmentCount |-> corpus.alignmentCount,
                          result |-> analyzeDimension2_Corpus(existsFirst, corpus)]
     \/ \E healthyCount \in 0..EndpointCount, vt \in VtDirs, cf \in CfOutcomes :
          /\ evidence.dimension = 3
          /\ evidence' = [dimension |-> 3, pending |-> FALSE,
                          apis |-> fetchProductionEvidence(healthyCount),
                          virustotal |-> checkVirusTotalEvidence(vt),
                          scans |-> SelectSeq(vt.files, LAMBDA f : f.kind = "scan"),
                          cloudflare |-> checkCloudflareAnalytics(cf),
                          result |-> analyzeDimension3_Evidence(healthyCount, vt, cf)]
     \/ \E lastCommitAge \in 0..MaxAge :
          /\ evidence.dimension = 4
          /\ evidence' = [dimension |-> 4, pending |-> FALSE,
                          lastCommitAge |-> lastCommitAge,
                          decay30 |-> calculateTemporalDecay(lastCommitAge),
                          result |-> analyzeDimension4_Temporal(lastCommitAge)]
  /\ UNCHANGED <<vpc, pcD, dims, correlation, correlateCalls>>
  /\ UNCHANGED clientVars
  /\ UNCHANGED senderVars
  /\ UNCHANGED detectorVars
  /\ UNCHANGED callerVars

InitAnalyzers ==
  /\ InitClient
  /\ InitDetectorFields
  /\ text = {}
  /\ context = [file |-> NoFile]
  /\ IdleVerifier
  /\ IdleCallers

SpecAnalyzers == InitAnalyzers /\ [][AnalyzerCalled \/ AnalyzerReturns]_vars

\* ------------------------------------------------------------------
\* Specification of the correlator as a pure function of five results
\* ------------------------------------------------------------------
TestScores == {0, 50, 84, 85, 86} \cup ((EPISTEMIC_CAP - ScoreWindow)..EPISTEMIC_CAP)

InitCorrelate ==
  /\ InitClient
  /\ InitDetectorFields
  /\ text = {}
  /\ context = [file |-> NoFile]
  /\ vpc = "running"
  /\ pcD = [i \in Dimensions |-> "done"]
  /\ dims \in [Dimensions -> [score : TestScores, status : {"PASSED"}]]
  /\ correlation = NoCorrelation
  /\ correlateCalls = 0
  /\ evidence = [dimension |-> 0, pending |-> FALSE]
  /\ IdleCallers

NextCorrelate == VerifyCorrelate

\* ------------------------------------------------------------------
\* Remote sync client: sendEvents with retry
\* ------------------------------------------------------------------
retryAttempts == 3
retryDelay == 1000
MaxEvents == 2

\* variant: a constant delay between attempts
BackoffDelayConstant(n) == retryDelay

\* const delay = this.retryDelay * Math.pow(2, attempt - 1)
BackoffDelay(n) == retryDelay * 2 ^ (n - 1)

\* variant: one more retry is allowed after the last attempt
MayRetryOnceMore(n) == n <= retryAttempts

\* if (attempt < this.retryAttempts) retry, else drop
MayRetry(n) == n < retryAttempts

\* configure() is called by the entry points before any send is started
SenderConfigure ==
  /\ spc \in {"idle", "done"}
  /\ Configure({Config(TRUE, Null, Null, Null),
                       Config(FALSE, Null, "key", Null),
                       Config(FALSE, "https://brain", Null, Null),
                       Config(FALSE, "https://brain", "key", Null),
                       Config(FALSE, "https://brain", Null, "token")})
  /\ UNCHANGED senderVars
  /\ UNCHANGED detectorVars
  /\ UNCHANGED verifierVars
  /\ UNCHANGED callerVars

\* sendEvents(events, attempt = 1) up to its first await: the guard and the POST
BeginSend(n) ==
  /\ events' = n
  /\ IF ~enabled \/ n = 0
     THEN /\ spc' = "done"
          /\ posts' = 0
     ELSE /\ spc' = "posting"
          /\ posts' = 1
  /\ attempt' = 1
  /\ waits' = <<>>
  /\ outcomes' = <<>>
  /\ dropped' = FALSE

\* sendEvents(events) called on its own
SendStart ==
  /\ spc \in {"idle", "done"}
  /\ \E n \in 0..MaxEvents : BeginSend(n)
  /\ UNCHANGED clientVars
  /\ UNCHANGED detectorVars
  /\ UNCHANGED verifierVars
  /\ UNCHANGED callerVars

\* fetchIncidentPatterns() called on its own, whatever the configuration
FetchPatterns ==
  /\ spc \in {"idle", "done"}
  /\ \E remote \in RemoteOutcomes : lastFetch' = Fetched(enabled, remote)
  /\ UNCHANGED <<enabled, endpoint, apiKey, lastConfig>>
  /\ UNCHANGED senderVars
  /\ UNCHANGED detectorVars
  /\ UNCHANGED verifierVars
  /\ UNCHANGED callerVars

\* the POST settles: 2xx, or an error caught by the retry logic
PostSettles ==
  /\ spc = "posting"
  /\ \E o \in {"2xx", "non2xx", "network", "timeout"} :
       /\ outcomes' = Append(outcomes, o)
       /\ IF o = "2xx"
          THEN /\ spc' = "done"
               /\ UNCHANGED <<waits, dropped>>
          ELSE IF MayRetry(attempt)
          THEN /\ spc' = "waiting"
               /\ waits' = Append(waits, BackoffDelay(attempt))
               /\ UNCHANGED dropped
          ELSE /\ spc' = "done"
               /\ dropped' = TRUE
               /\ UNCHANGED waits
  /\ UNCHANGED <<attempt, posts, events>>
  /\ UNCHANGED clientVars
  /\ UNCHANGED detectorVars
  /\ UNCHANGED verifierVars
  /\ UNCHANGED callerVars

\* the backoff timer fires: return this.sendEvents(events, attempt + 1)
BackoffElapses ==
  /\ spc = "waiting"
  /\ attempt' = attempt + 1
  /\ IF ~enabled \/ events = 0
     THEN /\ spc' = "done"
          /\ UNCHANGED posts
     ELSE /\ spc' = "posting"
          /\ posts' = posts + 1
  /\ UNCHANGED <<waits, outcomes, dropped, events>>
  /\ UNCHANGED clientVars
  /\ UNCHANGED detectorVars
  /\ UNCHANGED verifierVars
  /\ UNCHANGED callerVars

\* ------------------------------------------------------------------
\* Entry points that send telemetry: the CLI review action ("cli") and the
\* POST /webhook/github handler ("webhook")
\* ------------------------------------------------------------------
\* A CLI process or a webhook request starts and computes its own result
\* (await detector.analyze(...) / await verifier.verify())
HandlerRequest ==
  /\ handler.pc \in {"idle", "responded"}
  /\ spc \in {"idle", "done"}
  /\ \E kind \in {"cli", "webhook"} :
       handler' = [kind |-> kind, pc |-> "working", awaits |-> FALSE, status |-> "none",
                   sendAtResponse |-> "none"]
  /\ UNCHANGED calls
  /\ UNCHANGED clientVars
  /\ UNCHANGED senderVars
  /\ UNCHANGED detectorVars
  /\ UNCHANGED verifierVars

\* The entry point has its own result and hands the telemetry to the client.
\* cli: centralBrainSender.sendViolations(...).catch(...), not awaited;
\* webhook: if (CentralBrainClient.enabled) await CentralBrainClient.sendEvents([event])
HandlerSend ==
  /\ handler.pc = "working"
  /\ IF handler.kind = "cli"
     THEN /\ \E n \in 0..MaxEvents : BeginSend(n)
          /\ handler' = [handler EXCEPT !.pc = "sent", !.awaits = FALSE]
     ELSE IF enabled
     THEN /\ BeginSend(1)
          /\ handler' = [handler EXCEPT !.pc = "sent", !.awaits = TRUE]
     ELSE /\ UNCHANGED senderVars
          /\ handler' = [handler EXCEPT !.pc = "sent", !.awaits = FALSE]
  /\ UNCHANGED calls
  /\ UNCHANGED clientVars
  /\ UNCHANGED detectorVars
  /\ UNCHANGED verifierVars

\* The entry point produces its result: process.exit(...) / res.json(...).
\* An awaited send must have returned first.
HandlerRespond ==
  /\ handler.pc = "sent"
  /\ handler.awaits => spc = "done"
  /\ handler' = [handler EXCEPT !.pc = "responded", !.status = "ok",
                                !.sendAtResponse = spc]
  /\ UNCHANGED calls
  /\ UNCHANGED clientVars
  /\ UNCHANGED senderVars
  /\ UNCHANGED detectorVars
  /\ UNCHANGED verifierVars

InitCallers ==
  /\ InitClient
  /\ InitDetectorFields
  /\ text = {}
  /\ context = [file |-> NoFile]
  /\ IdleVerifier
  /\ IdleCallers

NextCallers ==
  \/ SenderConfigure
  \/ HandlerRequest
  \/ HandlerSend
  \/ HandlerRespond
  \/ PostSettles
  \/ BackoffElapses

SpecCallers == InitCallers /\ [][NextCallers]_vars

InitSender ==
  /\ InitClient
  /\ InitDetectorFields
  /\ text = {}
  /\ context = [file |-> NoFile]
  /\ IdleVerifier
  /\ IdleCallers

NextSender ==
  \/ SenderConfigure
  \/ SendStart
  \/ FetchPatterns
  \/ PostSettles
  \/ BackoffElapses

SpecSender == InitSender /\ [][NextSender]_vars
\* The POST carries a 5 s abort timeout and the backoff is a timer, so both
\* awaits of a running call settle
SpecSenderFair == SpecSender /\ WF_vars(PostSettles) /\ WF_vars(BackoffElapses)

SpecVerify == InitVerify /\ [][NextVerify]_vars
SpecCorrelate == InitCorrelate /\ [][NextCorrelate]_vars

\* ==================================================================
\* Properties
\* ==================================================================
FailedPass(d) == d[2].score = 0 /\ d[3].score = EPISTEMIC_CAP /\ d[5].score = 50

\* C1: in every run of verify(), whatever the analyzers meet on the file
\* system and the network, each dimension result that is produced, and each
\* score handed to the correlator, lies in 0..95.
C1_DimensionScoresBounded ==
  /\ \A i \in Dimensions :
       pcD[i] = "done" => dims[i].score >= 0 /\ dims[i].score <= 95
  /\ vpc = "done" =>
       \A i \in 1..Len(correlation.scores) :
         correlation.scores[i] >= 0 /\ correlation.scores[i] <= 95

\* C1 witness: a pass was correlated in which the corpus was missing, the
\* evidence score sat at the cap and the financial evidence was neutral.
C1_Witness == vpc = "done" /\ correlateCalls = 1 /\ FailedPass(dims)

\* The spread and the sum of the five scores, written out from the results
Spread(d) ==
  LET S == {d[i].score : i \in Dimensions}
      hi == CHOOSE x \in S : \A y \in S : y <= x
      lo == CHOOSE x \in S : \A y \in S : x <= y
  IN hi - lo
Total(d) == d[1].score + d[2].score + d[3].score + d[4].score + d[5].score

\* C2: for five scores in 0..95 the status is GODEL_COMPLIANT exactly when
\* the spread is at most 10 and the exact mean is at least 85; it is
\* DRIFT_DETECTED whenever the spread exceeds 10 (even with a low mean), and
\* INCONSISTENT when the spread is at most 10 and the mean is below 85.
C2_StatusDecision ==
  vpc = "done" =>
    /\ correlation.status = "GODEL_COMPLIANT"
         <=> (Spread(dims) <= 10 /\ Total(dims) >= 85 * 5)
    /\ correlation.status = "DRIFT_DETECTED" <=> Spread(dims) > 10
    /\ correlation.status = "INCONSISTENT"
         <=> (Spread(dims) <= 10 /\ Total(dims) < 85 * 5)

\* C2 witness: drift is reported for a vector whose mean is also below 85.
C2_Witness ==
  vpc = "done" /\ correlation.status = "DRIFT_DETECTED" /\ Total(dims) < 85 * 5

\* C3: maxDrift is the largest score minus the smallest, never negative, and
\* hasDrift is true exactly when maxDrift exceeds 10.
C3_MaxDrift ==
  vpc = "done" =>
    /\ correlation.maxDrift = Spread(dims)
    /\ correlation.maxDrift >= 0
    /\ correlation.hasDrift <=> correlation.maxDrift > 10

\* C3 witness: a correlated vector whose first and last scores are equal
\* while an inner score lies more than 10 below them.
C3_Witness ==
  /\ vpc = "done"
  /\ dims[1].score = dims[5].score
  /\ correlation.maxDrift > 10
  /\ correlation.hasDrift

C5_DocumentationExempt ==
  (lastResult.called /\ text \cap DocMarkers # {}) =>
    /\ ~lastResult.result.threw
    /\ lastResult.result.violations = <<>>
    /\ lastResult.result.warnings = <<>>
    /\ lastResult.result.commendations = <<Commendation("DOCUMENTATION")>>

\* C5 witness: a documentation text that also carries an investor marker and
\* matches rule patterns was analyzed for a deploy page with all rules loaded.
C5_Witness ==
  /\ lastResult.called
  /\ ~lastResult.stale
  /\ {"THE LAW", "ARR", "pA", "pB"} \subseteq text
  /\ context.file = DeployPage
  /\ incidents.rules = AllRules

\* The rule a finding's incident label is attributed to
RuleOfLabel(label) ==
  CASE label = "Issue #43" -> "issue-43"
    [] label = "Issue #32" -> "issue-32"
    [] label = "Issue #41" -> "issue-41"
    [] label = "DAYMAN/NIGHTMAN Theme" -> "dayman-nightman-theme"
    [] label = "Alpine Base Image" -> "alpine-base-image"
    [] label = "Docker AMD64 Platform" -> "docker-amd64-platform"
    [] label = "Live Data Law" -> "live-data-law"
    [] label = "Issue #95" -> "git-directory-breakout"
    [] OTHER -> "none"

RuleFindings(r) == r.violations \o r.warnings
LabelCount(r, label) ==
  Len(SelectSeq(RuleFindings(r), LAMBDA f : f.incident = label))
RuleLabels == {"Issue #43", "Issue #32", "Issue #41", "DAYMAN/NIGHTMAN Theme",
               "Alpine Base Image", "Docker AMD64 Platform", "Live Data Law", "Issue #95"}

\* C6: a rule absent from the active set emits no finding: every violation
\* or warning that carries an incident label belongs to a rule of the active
\* set, so an empty registry yields no labelled finding for any text and
\* context.
C6_AbsentRuleSilent ==
  (lastResult.called /\ ~lastResult.stale) =>
    \A i \in 1..Len(RuleFindings(lastResult.result)) :
      LET f == RuleFindings(lastResult.result)[i] IN
        f.incident # "none" => RuleOfLabel(f.incident) \in DOMAIN incidents.rules

\* C7: within one analyze call each rule contributes at most one finding,
\* however many of its patterns match and however many checks consult it.
C7_OneFindingPerRule ==
  lastResult.called =>
    \A label \in RuleLabels : LabelCount(lastResult.result, label) <= 1

\* C8: a second analyze call with the same text and context and the registry
\* unchanged returns the same violations, warnings and commendations as the
\* first.
C8_AnalyzeIdempotent ==
  [][(lastResult.called /\ ~lastResult.stale /\ ~lastResult'.stale)
       => lastResult'.result = lastResult.result]_vars

\* C8 witness: a repeated call returned a violation and a commendation.
C8_Witness ==
  /\ lastResult.called
  /\ lastResult.repeated
  /\ lastResult.result.violations # <<>>
  /\ lastResult.result.commendations # <<>>

\* C9: when the remote fetch fails while the client is enabled, the load does
\* not raise, the active set becomes the rules of the local fallback
\* directory, and a following analyze call reports findings from that set.
C9_FallbackAfterRemoteFailure ==
  (dpc = "idle" /\ lastLoad.called /\ lastLoad.enabledAtCall /\ lastLoad.remoteFailed) =>
    /\ ~lastLoad.raised
    /\ ~incidents.isNull
    /\ incidents.rules = lastLoad.localRules
    /\ (/\ lastResult.called
        /\ ~lastResult.stale
        /\ "issue-43" \in DOMAIN lastLoad.localRules
        /\ text \cap PatternIds # {}
        /\ text \cap DocMarkers = {})
         => \E i \in 1..Len(lastResult.result.violations) :
              lastResult.result.violations[i].incident = "Issue #43"

AllFailed(os) == \A i \in 1..Len(os) : os[i] # "2xx"

\* C10: when every POST of one sendEvents call fails, exactly 3 POSTs are
\* made, the waits between them are 1000 ms then double each time (strictly
\* increasing), and after the third failure the events are dropped with the
\* call finished.
C10_ThreeAttemptsThenDrop ==
  /\ posts <= 3
  /\ dropped => spc = "done"
  /\ (spc = "done" /\ posts > 0 /\ AllFailed(outcomes)) =>
       /\ posts = 3
       /\ Len(outcomes) = 3
       /\ dropped
       /\ Len(waits) = 2
       /\ waits[1] = 1000
       /\ \A i \in 1..(Len(waits) - 1) :
            waits[i + 1] = 2 * waits[i] /\ waits[i + 1] > waits[i]

\* C10 witness: a call ended with three failed POSTs and its events dropped.
C10_Witness == spc = "done" /\ dropped /\ posts = 3 /\ AllFailed(outcomes)

\* C11: a telemetry send never raises whatever the POST outcomes are, and
\* every entry point that has handed its telemetry to the client can produce
\* its own result at once, without the send, its retries or its backoff
\* waits having finished.
C11_FireAndForget ==
  /\ handler.pc = "responded" => handler.status = "ok"
  /\ handler.pc = "sent" => ENABLED HandlerRespond

\* The text matches a pattern of the security-control-removal rule and
\* nothing else: no other rule of the registry, no heuristic, no exemption
\* and no commendation keyword.
OnlyRule43(reg, t, ctx) ==
  /\ "issue-43" \in DOMAIN reg
  /\ reg["issue-43"].hasPatterns
  /\ \E i \in 1..Len(reg["issue-43"].textPatterns) : reg["issue-43"].textPatterns[i] \in t
  /\ \A id \in DOMAIN reg \ {"issue-43"} :
       \A i \in 1..Len(reg[id].textPatterns) : reg[id].textPatterns[i] \notin t
  /\ t \subseteq PatternIds
  /\ ~IsWorkflowChange(ctx)

\* C12: a text that matches only the security-control-removal rule yields
\* exactly one violation, CRITICAL, whose financialRisk carries the min, max
\* and proven of the rule's financialImpact, and no commendation.
C12_SecurityControlRemoval ==
  (lastResult.called /\ ~lastResult.stale /\ dpc = "idle"
     /\ OnlyRule43(incidents.rules, text, context)) =>
    LET r == lastResult.result
        impact == incidents.rules["issue-43"].financialImpact
    IN /\ ~r.threw
       /\ Len(r.violations) = 1
       /\ r.violations[1].severity = "CRITICAL"
       /\ r.violations[1].financialRisk.min = impact.min
       /\ r.violations[1].financialRisk.max = impact.max
       /\ r.violations[1].financialRisk.proven = impact.proven
       /\ r.commendations = <<>>

\* C12 witness: the rule with impact 2500000..6000000 (proven) fired alone.
C12_Witness ==
  /\ lastResult.called /\ ~lastResult.stale /\ dpc = "idle"
  /\ OnlyRule43(incidents.rules, text, context)
  /\ Len(lastResult.result.violations) = 1
  /\ lastResult.result.violations[1].financialRisk.min = 2500000
  /\ lastResult.result.violations[1].financialRisk.max = 6000000
  /\ lastResult.result.violations[1].financialRisk.proven

\* C13: in every returned result hasCritical holds exactly when some
\* violation is CRITICAL and hasViolations exactly when the violations list
\* is non-empty; warnings set neither flag.
C13_ResultFlags ==
  (lastResult.called /\ ~lastResult.result.threw) =>
    LET r == lastResult.result IN
      /\ r.hasCritical <=> {i \in 1..Len(r.violations) :
                              r.violations[i].severity = "CRITICAL"} # {}
      /\ r.hasViolations <=> r.violations # <<>>
      /\ r.violations = <<>> => ~r.hasViolations /\ ~r.hasCritical

\* C13 witness: a result with a HIGH warning and no violation at all.
C13_Witness ==
  /\ lastResult.called
  /\ ~lastResult.result.threw
  /\ lastResult.result.violations = <<>>
  /\ \E i \in 1..Len(lastResult.result.warnings) :
       lastResult.result.warnings[i].severity = "HIGH"

\* C14: after a completed load the active set comes from one source: the
\* remote set when the client was enabled and the remote set was non-empty
\* (the local directory is then not read), and otherwise the set parsed from
\* the local fallback directory; never a merge of the two.
C14_OneSource ==
  (lastLoad.called /\ dpc = "idle") =>
    IF lastLoad.enabledAtCall /\ lastLoad.remoteRules # EmptyRegistry
    THEN /\ lastLoad.source = "LIVE"
         /\ incidents.rules = lastLoad.remoteRules
         /\ lastLoad.localRead = "none"
    ELSE /\ lastLoad.source = "LOCAL"
         /\ incidents.rules = lastLoad.localRules

\* C15: in a local fallback load an unparsable rule file is skipped and every
\* parseable file of the directory is loaded, wherever the bad file stands in
\* the listing.
C15_ParseFailureSkipped ==
  (lastLoad.called /\ dpc = "idle" /\ lastLoad.source = "LOCAL"
     /\ lastLoad.localRead = "parsefail") =>
    incidents.rules = lastLoad.localRules

\* C16: an explicit reload that fails totally (nothing from the remote, local
\* directory unreadable) on a detector holding a non-empty set leaves that
\* set in place.
C16_RetainOnTotalFailure ==
  [][(dpc = "local" /\ dpc' = "idle" /\ lastLoad'.localRead = "unreadable"
        /\ ~incidents.isNull /\ incidents.rules # EmptyRegistry)
       => incidents' = incidents]_vars

\* C17: analyze never raises because of rule data: with a rule in the
\* active set that lacks its pattern list, or its financial-impact range,
\* the call still returns a result, and a rule without a pattern list
\* contributes no finding.
C17_MalformedRuleSilent ==
  (lastResult.called /\ ~lastResult.stale /\ dpc = "idle") =>
    /\ ~lastResult.result.threw
    /\ \A id \in DOMAIN incidents.rules :
         ~incidents.rules[id].hasPatterns =>
           \A i \in 1..Len(RuleFindings(lastResult.result)) :
             RuleOfLabel(RuleFindings(lastResult.result)[i].incident) # id

\* The findings of a result that carry a rule label, with their kind
LabelledFindings(r) ==
  <<SelectSeq(r.violations, LAMBDA f : f.incident \in RuleLabels),
    SelectSeq(r.warnings, LAMBDA f : f.incident \in RuleLabels)>>

\* C20: an investor text that is not documentation yields exactly one
\* INVESTOR_MATERIALS commendation, the same rule-backed findings as the
\* text without its investor markers, no ENTERPRISE_SPRAWL violation and no
\* COST_INEFFICIENCY warning.
C20_InvestorSoftException ==
  (lastResult.called /\ ~lastResult.stale /\ dpc = "idle" /\ ~lastResult.result.threw
     /\ text \cap InvestorMarkers # {} /\ text \cap DocMarkers = {}) =>
    LET r == lastResult.result
        plain == getResults(analyzeLoaded(Fields(<<>>, <<>>, <<>>), incidents.rules,
                                          text \ InvestorMarkers, context))
    IN /\ Len(SelectSeq(r.commendations, LAMBDA c : c.type = "INVESTOR_MATERIALS")) = 1
       /\ LabelledFindings(r) = LabelledFindings(plain)
       /\ \A i \in 1..Len(r.violations) : r.violations[i].type # "ENTERPRISE_SPRAWL"
       /\ \A i \in 1..Len(r.warnings) : r.warnings[i].type # "COST_INEFFICIENCY"

\* C18: in every interleaving of the five analyzers of one verify() pass,
\* whatever failures they meet, correlate5D runs exactly once, only after all
\* five have produced a result and on those five results; the pass always
\* completes once the analyzers have settled.
C18_CorrelateOnceAfterAll ==
  /\ vpc = "running" => correlateCalls = 0
  /\ vpc = "done" =>
       /\ correlateCalls = 1
       /\ \A i \in Dimensions : pcD[i] = "done" /\ dims[i] # Pending
       /\ correlation.scores = [i \in Dimensions |-> dims[i].score]
  /\ (vpc = "running" /\ \A i \in Dimensions : pcD[i] = "done") =>
       ENABLED VerifyCorrelate

\* C18 witness: a pass completed in which the corpus file was missing and
\* the evidence analyzer met only failures, and all five results were
\* correlated.
C18_Witness ==
  /\ vpc = "done"
  /\ correlateCalls = 1
  /\ dims[2].status = "FAILED"
  /\ dims[3].status = "DEGRADED" /\ dims[3].score < 50
  /\ Len(correlation.scores) = 5

\* What a call returns when it runs alone on its own text and context
Alone(call) ==
  getResults(analyzeLoaded(Fields(<<>>, <<>>, <<>>), call.reg, call.text, call.context))

\* C19: analyze calls that overlap on one detector instance are independent:
\* each returns exactly the violations, warnings and commendations it would
\* return when run alone on its own text and context.
C19_OverlappingCallsIndependent ==
  \A c \in DOMAIN calls :
    calls[c].pc = "returned" =>
      /\ calls[c].result.threw = Alone(calls[c]).threw
      /\ ~calls[c].result.threw =>
           /\ calls[c].result.violations = Alone(calls[c]).violations
           /\ calls[c].result.warnings = Alone(calls[c]).warnings
           /\ calls[c].result.commendations = Alone(calls[c]).commendations

\* C21: every finding emitted for a rule carries the severity stored in that
\* rule's record of the active set, whichever severity the registry holds.
C21_SeverityFromRule ==
  (lastResult.called /\ ~lastResult.stale /\ dpc = "idle") =>
    \A i \in 1..Len(RuleFindings(lastResult.result)) :
      LET f == RuleFindings(lastResult.result)[i] IN
        RuleOfLabel(f.incident) \in DOMAIN incidents.rules =>
          f.severity = incidents.rules[RuleOfLabel(f.incident)].severity

\* C22: one call of fetchIncidentPatterns issues at most one GET and never
\* raises: a 2xx response yields the body's patterns map (empty when the
\* field is missing), any failure yields the empty set, and a client that is
\* not enabled yields the empty set without a request.
C22_FetchSingleGet ==
  lastFetch.called =>
    /\ ~lastFetch.threw
    /\ lastFetch.gets <= 1
    /\ ~lastFetch.enabled =>
         lastFetch.gets = 0 /\ lastFetch.patterns = EmptyRegistry
    /\ (lastFetch.enabled /\ lastFetch.ok) =>
         /\ lastFetch.gets = 1
         /\ lastFetch.patterns = IF lastFetch.hasPatterns THEN lastFetch.body
                                  ELSE EmptyRegistry
    /\ (lastFetch.enabled /\ ~lastFetch.ok) =>
         lastFetch.gets = 1 /\ lastFetch.patterns = EmptyRegistry

\* C22 witness: an enabled client fetched a body with patterns, and the
\* call returned them after one GET.
C22_Witness ==
  /\ lastFetch.called /\ lastFetch.enabled /\ lastFetch.ok
  /\ lastFetch.gets = 1
  /\ lastFetch.patterns = AllRules

\* C23: for every corpus that is found and read, the Dimension 2 score
\* emitted is min(95, round((sizeScore + qualityScore) / 2)), with sizeScore
\* 95 from 50 records on and round(count/50 * 95) below, and qualityScore
\* round(k/4 * 95) for k alignment signals; a rounded average in 90..94 is
\* emitted as it is.
C23_CorpusScore ==
  (evidence.dimension = 2 /\ ~evidence.pending /\ evidence.found) =>
    LET sizeScore == IF evidence.exampleCount >= 50 THEN 95
                     ELSE Round(evidence.exampleCount * 95, 50)
        qualityScore == Round(evidence.alignmentCount * 95, 4)
    IN evidence.result.score = Min(95, Round(sizeScore + qualityScore, 2))

\* The scans take their detection counts from the natural numbers, as the
\* scanner's statistics do
CountsAreNatural(scans) ==
  \A i \in 1..Len(scans) : scans[i].malicious >= 0 /\ scans[i].suspicious >= 0

C26_LazyLoadOnce ==
  /\ [](Cardinality({c \in DOMAIN calls : calls[c].loaded}) <= 1)
  /\ [][(\E c \in DOMAIN calls : calls[c].loaded /\ calls[c].pc \notin {"local", "reading"})
          => \A c \in DOMAIN calls : calls'[c].loaded = calls[c].loaded]_vars

\* C27: the rule set is replaced wholesale: no analyze call evaluates a
\* check against a set that a load is still filling; every check sees the
\* complete set from before a load or the complete set a load produced.
C27_WholesaleReplace ==
  \A c \in DOMAIN calls : ~calls[c].duringLoad

\* C28: in every CorrelationResult the reported fields agree with the
\* verdict: status is GODEL_COMPLIANT exactly when the reported maxDrift is
\* at most 10 and the reported average score (correlation.avgScore) is at
\* least 85.
C28_ReportedFieldsAgree ==
  vpc = "done" =>
    (correlation.status = "GODEL_COMPLIANT"
       <=> (correlation.maxDrift <= 10 /\ correlation.avgScore >= 85))

\* The configure argument names an endpoint together with an apiKey or an
\* oauthToken
Supplied(config) ==
  /\ ~config.isNull
  /\ config.endpoint # Null
  /\ config.apiKey # Null \/ config.oauthToken # Null

\* C29: after any sequence of configure calls, enabled implies that endpoint
\* and credential are set, and enabled tells whether the most recent call
\* supplied an endpoint with an apiKey or oauthToken; while the client is
\* disabled no step issues a POST or a GET.
C29_EnabledFollowsConfigure ==
  /\ [](/\ enabled => endpoint # Null /\ apiKey # Null
        /\ lastConfig.called => (enabled <=> Supplied(lastConfig.config))
        /\ ~lastConfig.called => ~enabled)
  /\ [][~enabled => /\ posts' = posts \/ posts' = 0
                    /\ lastFetch' # lastFetch => lastFetch'.gets = 0]_vars

\* C29 witness: a client that had been enabled was disabled by a configure
\* call without credentials, and a sendEvents call made afterwards finished
\* without a POST.
C29_Witness ==
  /\ lastConfig.called /\ ~Supplied(lastConfig.config)
  /\ ~enabled /\ endpoint # Null
  /\ spc = "done" /\ events > 0 /\ posts = 0

\* C30: one sendEvents call stops at its first success: when the k-th POST
\* is the first 2xx exactly k POSTs are issued and none follows; waits occur
\* only between two consecutive attempts (attempts - 1 of them), so none
\* follows a success or the third failure; the call ends after at most 3
\* POSTs.
C30_StopsAtFirstSuccess ==
  /\ [](/\ posts <= 3
        /\ \A i \in 1..(Len(outcomes) - 1) : outcomes[i] # "2xx"
        /\ spc = "posting" => Len(outcomes) = posts - 1 /\ Len(waits) = posts - 1
        /\ spc = "waiting" => Len(outcomes) = posts /\ Len(waits) = posts /\ posts < 3
        /\ (spc = "done" /\ posts > 0) =>
             /\ Len(outcomes) = posts
             /\ Len(waits) = posts - 1
             /\ outcomes[posts] = "2xx" \/ posts = 3)
  /\ [][spc = "done" => (posts' = posts \/ spc' = "posting" \/ posts' = 0)]_vars
  /\ (spc \in {"posting", "waiting"}) ~> (spc = "done")

\* C30 witness: a call ended with its second POST as the first success,
\* after one wait.
C30_Witness ==
  /\ spc = "done" /\ posts = 2 /\ ~dropped
  /\ outcomes[1] # "2xx" /\ outcomes[2] = "2xx"
  /\ Len(waits) = 1

====
